---- MODULE Spec2Model ----
(***************************************************************************)
(* The core option manager of core_options.c: the descriptor parser, the   *)
(* option table, the persistence bridge and the query/mutation API.        *)
(*                                                                         *)
(* A C string is a sequence of one-character strings, so that strstr,      *)
(* string_split and strcmp are computed on the characters.  A size_t is a  *)
(* natural number below 2^SizeBits and its arithmetic wraps.  Positions    *)
(* and indexes are 0-based as in the C code; element i of a C array is     *)
(* element i+1 of the sequence that models it.                             *)
(*                                                                         *)
(* Memory exhaustion (calloc, strdup returning NULL) is outside the model. *)
(***************************************************************************)
EXTENDS Integers, Sequences, FiniteSets, TLC

\* ------------------------------------------------------------------ bounds

\* The longest descriptor array handed to core_option_new (without sentinel).
MaxOpts == 2

\* The width of size_t in the model.
SizeBits == 3

\* The largest index a modulus by zero that does not trap is followed to.
MaxWild == 0

\* The longest descriptor text handed to parse_variable on its own.
MaxDescLen == 5

SizeRange == 2^SizeBits

\* The val_idx arguments tried: the small ones, and SIZE_MAX.
ValIdxInputs == (0..3) \cup {SizeRange - 1}

\* ------------------------------------------------------------- C values

\* The null pointer, where a string or a handle is expected.
NULL == <<"NULL">>

\* true / false where a result is recorded beside strings.
CTRUE == <<"true">>

CFALSE == <<"false">>

\* The manager handle core_option_new returns.
HANDLE == <<"opt">>

\* What a read outside a string_list's elements can yield besides a trap.
Garbage == <<"?">>

\* A trap (SIGSEGV on an out-of-bounds read), as a read's outcome.
SEGV == <<"SIGSEGV">>

\* A trap (SIGFPE on a division by zero), as a modulus' outcome.
FPE == 0 - 1

K1 == <<"k", "1">>

K2 == <<"k", "2">>

Keys == {K1, K2}

\* "d; a|b|b": three values, the last a duplicate of the second.
D_abb == <<"d", ";", " ", "a", "|", "b", "|", "b">>

\* "d; a": a single value.
D_a == <<"d", ";", " ", "a">>

\* "d; ": nothing after the separator.
D_none == <<"d", ";", " ">>

\* "d;a": no "; " separator.
D_bad == <<"d", ";", "a">>

Descriptors == {D_abb, D_a, D_none, D_bad}

\* struct retro_variable
Var(k, v) == [key |-> k, value |-> v]

\* The characters of a descriptor: a letter of the description, the two of
\* the separator, a letter of a value, the delimiter.
DescChars == {"d", ";", " ", "a", "|"}

\* Every descriptor text of up to MaxDescLen characters.
DescTexts == UNION { [1..n -> DescChars] : n \in 0..MaxDescLen }

\* The (key, descriptor) pairs a core declares.  Some of them share a key.
VarPool ==
    {Var(K1, D_abb), Var(K1, D_a), Var(K2, D_a), Var(K2, D_none), Var(K1, D_bad)}

\* The descriptor arrays, without their sentinel: up to MaxOpts pairs of the
\* pool in any order, none of them twice.
VarArrays ==
    UNION { {a \in [1..n -> VarPool] : \A i, j \in 1..n : a[i] = a[j] => i = j} :
            n \in 0..MaxOpts }

\* The pairs that end an array: an absent key, an absent descriptor, or both.
Sentinels == {Var(NULL, NULL), Var(NULL, D_abb), Var(K1, NULL)}

\* What lies in the array after the sentinel, as far as anything may read.
AfterSentinel == <<Var(K2, D_a), Var(NULL, NULL)>>

\* conf_path: a file name, or the empty string.
PathName == <<"p">>

Paths == {PathName, <<>>}

\* The entries of a config file: each key's string, or NULL for no entry.
EmptyData == [k \in Keys |-> NULL]

\* The file at PathName before the program runs: none, or one written
\* earlier (by this program, by another version of the core, or by hand).
InitialFiles ==
    { [exists |-> FALSE, data |-> EmptyData],
      [exists |-> TRUE, data |-> [k \in Keys |-> IF k = K1 THEN <<"b">> ELSE NULL]],
      [exists |-> TRUE, data |-> [k \in Keys |-> IF k = K1 THEN <<"B">> ELSE <<"a">>]] }

\* ------------------------------------------------------------------ state

VARIABLES
    vars,       \* the core's descriptor array (the pairs before the sentinel)
    conf_path,  \* the path handed to core_option_new
    disk,       \* the file at conf_path
    pc,         \* "none": no manager; "live": a manager; "crashed": the process trapped
    opts,       \* opt->opts: a sequence of struct core_option (opt->size is its length)
    conf,       \* opt->conf: the config_file_t handle and its entries
    updated,    \* opt->updated
    last,       \* history: the last call, its arguments and its result
    flushed,    \* history: every option's index at the last flush that wrote the file
    cleared     \* history: every option's index when opt->updated was last false-set

allvars == <<vars, conf_path, disk, pc, opts, conf, updated, last, flushed, cleared>>

\* ------------------------------------------------------------- libc

\* strcasecmp in strcmp's place.
ToLower(ch) == IF ch = "B" THEN "b" ELSE ch

strcasecmp(a, b) ==
    IF [i \in 1..Len(a) |-> ToLower(a[i])] = [i \in 1..Len(b) |-> ToLower(b[i])] THEN 0 ELSE 1

\* strcmp(a, b): 0 when the strings are equal.
strcmp(a, b) == IF a = b THEN 0 ELSE 1

\* Whether needle occurs in hay at (1-based) position p.
OccursAt(hay, needle, p) ==
    /\ p + Len(needle) - 1 <= Len(hay)
    /\ SubSeq(hay, p, p + Len(needle) - 1) = needle

RECURSIVE strstr_from(_, _, _)
strstr_from(hay, needle, p) ==
    IF p + Len(needle) - 1 > Len(hay) THEN 0
    ELSE IF OccursAt(hay, needle, p) THEN p
    ELSE strstr_from(hay, needle, p + 1)

\* The last occurrence in the first one's place.
strstr_last(hay, needle) ==
    LET ps == {p \in 1..Len(hay) : OccursAt(hay, needle, p)}
    IN  IF ps = {} THEN 0 ELSE CHOOSE p \in ps : \A q \in ps : q <= p

\* strstr(hay, needle): the 1-based position of the first occurrence, 0 for NULL.
strstr(hay, needle) == strstr_from(hay, needle, 1)

\* ------------------------------------------------------------- collaborators

\* The fields of a non-empty string between the delimiters, empty ones kept.
RECURSIVE Fields(_, _)
Fields(str, delim) ==
    LET p == strstr(str, delim)
    IN  IF p = 0 THEN <<str>>
        ELSE <<SubSeq(str, 1, p - 1)>> \o Fields(SubSeq(str, p + Len(delim), Len(str)), delim)

\* string_split(str, delim): a string_list (never the null pointer, memory
\* permitting); no element for the empty string.
string_split(str, delim) ==
    [null |-> FALSE, elems |-> IF str = <<>> THEN <<>> ELSE Fields(str, delim)]

\* config_file_new(path): the entries of the file, none when there is no file
\* yet; `ok` is whether the store could be opened.  `frees` counts the
\* config_file_free calls made on the handle.
config_file_new(path, ok) ==
    IF ~ok THEN [open |-> FALSE, from |-> "none", data |-> EmptyData, frees |-> 0]
    ELSE IF path = NULL
    THEN [open |-> TRUE, from |-> "default", data |-> EmptyData, frees |-> 0]
    ELSE [open |-> TRUE, from |-> "path",
          data |-> IF disk.exists THEN disk.data ELSE EmptyData, frees |-> 0]

\* config_get_string(conf, key, &out): [found, value].
config_get_string(c, key) ==
    [found |-> c.data[key] # NULL, value |-> c.data[key]]

\* config_set_string(conf, key, val)
config_set_string(c, key, val) == [c EXCEPT !.data[key] = val]

\* config_file_free(conf)
config_file_free(c) ==
    [open |-> FALSE, from |-> "none", data |-> EmptyData, frees |-> c.frees + 1]

\* opt->conf == NULL
NoConf == [open |-> FALSE, from |-> "none", data |-> EmptyData, frees |-> 0]

\* ------------------------------------------------------------- history

NoIdx == 0 - 1

\* One call of the API: the operation, the option position and argument it
\* was given, what it returned, the option's index before it, and (for
\* core_option_next / core_option_prev) the index before the opposite call
\* when that call came immediately before on the same option, else NoIdx.
Call(op, idx, arg, ret, pre, pre2) ==
    [op |-> op, idx |-> idx, arg |-> arg, ret |-> ret, pre |-> pre, pre2 |-> pre2]

NoCall == Call("none", NoIdx, NoIdx, NULL, NoIdx, NoIdx)

NotFlushed == [valid |-> FALSE, index |-> <<>>]

\* The history of the flag: kept (on) or not, and the indexes of the table
\* when the flag was last set to false, by calloc or by core_option_get.
NotTracked == [on |-> FALSE, index |-> <<>>]

Tracked == [on |-> TRUE, index |-> <<>>]

\* The history once the flag is set to false on the table os.
ClearedAt(os) ==
    IF cleared.on THEN [cleared EXCEPT !.index = [i \in 1..Len(os) |-> os[i].index]]
    ELSE cleared

\* The history once there is no table.
ClearedGone == [cleared EXCEPT !.index = <<>>]

\* ------------------------------------------------------------- construction

\* One element of calloc(size, sizeof(struct core_option)).
ZeroOption ==
    [key |-> NULL, desc |-> NULL, vals |-> [null |-> TRUE, elems |-> <<>>], index |-> 0]

\* The loop of parse_variable over option->vals: the first element equal to
\* config_val sets the index, which is otherwise left as it was.
RECURSIVE scan_vals(_, _, _, _)
scan_vals(elems, config_val, i, index) ==
    IF i >= Len(elems) THEN index
    ELSE IF strcmp(elems[i + 1], config_val) = 0 THEN i
    ELSE scan_vals(elems, config_val, i + 1, index)

\* parse_variable(opt, idx, var) on the zeroed option: [ok, option].
parse_variable(c, option, var) ==
    LET o1 == [option EXCEPT !.key = var.key]
        value == var.value
        desc_end == strstr(value, <<";", " ">>)
    IN  IF desc_end = 0 THEN [ok |-> FALSE, option |-> o1]
        ELSE
          LET o2 == [o1 EXCEPT !.desc = SubSeq(value, 1, desc_end - 1)]
              val_start == SubSeq(value, desc_end + 2, Len(value))
              o3 == [o2 EXCEPT !.vals = string_split(val_start, <<"|">>)]
              got == config_get_string(c, o3.key)
          IN  IF o3.vals.null THEN [ok |-> FALSE, option |-> o3]
              ELSE [ok |-> TRUE,
                    option |-> IF got.found
                               THEN [o3 EXCEPT !.index =
                                        scan_vals(o3.vals.elems, got.value, 0, o3.index)]
                               ELSE o3]

\* parse_variable(opt, 0, var) on its own: a table of one zeroed option and
\* an open store, the descriptor being any text.
parse_variable_call ==
    /\ pc = "none" /\ last.op = "none"
    /\ Len(opts) = 1 /\ Len(vars) = 1
    /\ LET r == parse_variable(conf, opts[1], vars[1])
       IN  /\ opts' = <<r.option>>
           /\ last' = Call("parse", 0, NoIdx, IF r.ok THEN CTRUE ELSE CFALSE, NoIdx, NoIdx)
    /\ UNCHANGED <<vars, conf_path, disk, pc, conf, updated, flushed, cleared>>

\* The count that stops at an absent key only.
RECURSIVE count_vars_keyonly(_, _)
count_vars_keyonly(raw, size) ==
    IF raw[size + 1].key = NULL THEN size
    ELSE count_vars_keyonly(raw, size + 1)

\* for (var = vars; var->key && var->value; var++) size++;
RECURSIVE count_vars(_, _)
count_vars(raw, size) ==
    IF raw[size + 1].key = NULL \/ raw[size + 1].value = NULL THEN size
    ELSE count_vars(raw, size + 1)

\* The parsing loop of core_option_new: [ok, opts, parsed], stopping at the
\* first pair parse_variable refuses; parsed counts the calls made.
RECURSIVE parse_all(_, _, _, _)
parse_all(c, os, raw, size) ==
    IF raw[size + 1].key = NULL \/ raw[size + 1].value = NULL
    THEN [ok |-> TRUE, opts |-> os, parsed |-> size]
    ELSE
      LET r == parse_variable(c, os[size + 1], raw[size + 1])
          os2 == [os EXCEPT ![size + 1] = r.option]
      IN  IF ~r.ok THEN [ok |-> FALSE, opts |-> os2, parsed |-> size + 1]
          ELSE parse_all(c, os2, raw, size + 1)

\* A manager whose flag is set when the store moved an option off index 0.
ManagerSeededDirty(ret, os, c, upd) ==
    [ret |-> ret, opts |-> os, conf |-> c,
     updated |-> (upd \/ \E i \in 1..Len(os) : os[i].index # 0)]

\* A manager: what core_option_new hands back, and the fields behind it.
Manager(ret, os, c, upd) == [ret |-> ret, opts |-> os, conf |-> c, updated |-> upd]

\* The error exit without the free and the `return NULL`: the manager as far
\* as it got is handed back.
new_error_leak(m) == m

\* core_option_free without its config_file_free.
free_conf_skip(c) == c

\* if (opt->conf) config_file_free(opt->conf);
free_conf(c) == IF c.open THEN config_file_free(c) ELSE c

\* core_option_free(opt) followed by `return NULL`: the error exit.
new_error(m) == Manager(NULL, <<>>, free_conf(m.conf), FALSE)

\* The store opened at conf_path only: no default store in its place.
open_store_nofallback(path_ok, default_ok) ==
    IF conf_path # <<>> THEN config_file_new(conf_path, path_ok) ELSE NoConf

\* if (*conf_path) opt->conf = config_file_new(conf_path);
\* if (!opt->conf) opt->conf = config_file_new(NULL);
open_store(path_ok, default_ok) ==
    LET c1 == IF conf_path # <<>> THEN config_file_new(conf_path, path_ok) ELSE NoConf
    IN  IF ~c1.open THEN config_file_new(NULL, default_ok) ELSE c1

\* The manager m, and the number of parse_variable calls made to build it.
WithParsed(m, n) ==
    [ret |-> m.ret, opts |-> m.opts, conf |-> m.conf, updated |-> m.updated, parsed |-> n]

\* core_option_new(conf_path, vars) on the array raw.
new_manager(raw, path_ok, default_ok) ==
    LET c2 == open_store(path_ok, default_ok)
        size == count_vars(raw, 0)
        r == parse_all(c2, [i \in 1..size |-> ZeroOption], raw, 0)
    IN  IF ~c2.open THEN WithParsed(new_error(Manager(HANDLE, <<>>, c2, FALSE)), 0)
        ELSE IF ~r.ok THEN WithParsed(new_error(Manager(HANDLE, r.opts, c2, FALSE)), r.parsed)
        ELSE WithParsed(Manager(HANDLE, r.opts, c2, FALSE), r.parsed)

core_option_new(path_ok, default_ok, sent) ==
    /\ pc = "none"
    /\ LET m == new_manager(vars \o <<sent>> \o AfterSentinel, path_ok, default_ok)
       IN  /\ pc' = IF m.ret = NULL THEN "none" ELSE "live"
           /\ opts' = m.opts
           /\ conf' = m.conf
           /\ updated' = m.updated
           /\ last' = Call("new", NoIdx,
                           [path_ok |-> path_ok, default_ok |-> default_ok,
                            parsed |-> m.parsed],
                           m.ret, NoIdx, NoIdx)
           /\ cleared' = IF m.ret = NULL THEN ClearedGone ELSE ClearedAt(m.opts)
    /\ UNCHANGED <<vars, conf_path, disk, flushed>>

\* core_option_free(opt) by the owner of a manager.
core_option_free ==
    /\ pc = "live"
    /\ pc' = "none"
    /\ opts' = <<>>
    /\ conf' = free_conf(conf)
    /\ updated' = FALSE
    /\ last' = Call("free", NoIdx, NoIdx, NULL, NoIdx, NoIdx)
    /\ cleared' = ClearedGone
    /\ UNCHANGED <<vars, conf_path, disk, flushed>>

\* ------------------------------------------------------------- undefined reads

\* x % n in size_t.  n = 0 is undefined behaviour: the division traps
\* (FPE), or the hardware yields a quotient of 0 and so a remainder of x
\* (followed up to MaxWild).
ModOutcomes(x, n) ==
    IF n # 0 THEN {x % n}
    ELSE {FPE} \cup (IF x <= MaxWild THEN {x} ELSE {})

\* What a read of elems[index] past the list's size can yield.
WildReads == {SEGV, Garbage, NULL}

\* The first element whatever the index.
get_val_first(option, wild) ==
    IF Len(option.vals.elems) = 0 THEN wild ELSE option.vals.elems[1]

\* option->vals->elems[option->index].data, `wild` being what the read
\* yields when the index is not below the list's size.
get_val_with(option, wild) ==
    IF option.index < Len(option.vals.elems)
    THEN option.vals.elems[option.index + 1]
    ELSE wild

\* core_option_get_val(opt, idx): every value the call can yield.
core_option_get_val(option) == {get_val_with(option, w) : w \in WildReads}

\* The outcomes to tell apart for the reads of a whole table.
WildReadsOf(os) ==
    IF \E i \in 1..Len(os) : os[i].index >= Len(os[i].vals.elems)
    THEN WildReads ELSE {SEGV}

\* ------------------------------------------------------------- queries

\* core_option_size(opt)
core_option_size == IF pc # "live" THEN 0 ELSE Len(opts)

\* core_option_updated(opt)
core_option_updated == IF pc # "live" THEN FALSE ELSE updated

\* The loop of core_option_get: the first position whose key is `key`, or NoIdx.
RECURSIVE find_key(_, _, _)
find_key(os, key, i) ==
    IF i >= Len(os) THEN NoIdx
    ELSE IF strcmp(os[i + 1].key, key) = 0 THEN i
    ELSE find_key(os, key, i + 1)

\* The process traps in `op` and ends: its memory, the manager in it, is gone.
Trap(op) ==
    /\ pc' = "crashed"
    /\ opts' = <<>>
    /\ conf' = NoConf
    /\ updated' = FALSE
    /\ last' = Call(op, NoIdx, NoIdx, SEGV, NoIdx, NoIdx)
    /\ cleared' = ClearedGone

\* core_option_get(opt, var): var->value is recorded as the call's result.
core_option_get(key) ==
    /\ pc = "live"
    /\ LET i == find_key(opts, key, 0)
       IN  \E v \in (IF i = NoIdx THEN {NULL} ELSE core_option_get_val(opts[i + 1])) :
              IF v = SEGV THEN Trap("get")
              ELSE /\ updated' = FALSE
                   /\ last' = Call("get", i, key, v, NoIdx, NoIdx)
                   /\ cleared' = ClearedAt(opts)
                   /\ UNCHANGED <<pc, opts, conf>>
    /\ UNCHANGED <<vars, conf_path, disk, flushed>>

\* A query that leaves the manager as it is and returns ret.
Query(op, idx, ret) ==
    /\ last' = Call(op, idx, NoIdx, ret, NoIdx, NoIdx)
    /\ UNCHANGED <<vars, conf_path, disk, pc, opts, conf, updated, flushed, cleared>>

\* core_option_size(opt) called on a manager.
core_option_size_call ==
    /\ pc = "live"
    /\ Query("size", NoIdx, core_option_size)

\* core_option_updated(opt) called on a manager.
core_option_updated_call ==
    /\ pc = "live"
    /\ Query("updated", NoIdx, IF core_option_updated THEN CTRUE ELSE CFALSE)

\* core_option_get_desc(opt, idx)
core_option_get_desc(idx) ==
    /\ pc = "live"
    /\ idx < Len(opts)
    /\ Query("get_desc", idx, opts[idx + 1].desc)

\* core_option_get_val(opt, idx) that clears opt->updated as core_option_get does.
core_option_get_val_clearing(idx) ==
    /\ pc = "live"
    /\ idx < Len(opts)
    /\ \E v \in core_option_get_val(opts[idx + 1]) :
          IF v = SEGV
          THEN Trap("get_val") /\ UNCHANGED <<vars, conf_path, disk, flushed>>
          ELSE /\ updated' = FALSE
               /\ last' = Call("get_val", idx, NoIdx, v, NoIdx, NoIdx)
               /\ UNCHANGED <<vars, conf_path, disk, pc, opts, conf, flushed, cleared>>

\* core_option_get_val(opt, idx) called on a manager.
core_option_get_val_call(idx) ==
    /\ pc = "live"
    /\ idx < Len(opts)
    /\ \E v \in core_option_get_val(opts[idx + 1]) :
          IF v = SEGV
          THEN Trap("get_val") /\ UNCHANGED <<vars, conf_path, disk, flushed>>
          ELSE Query("get_val", idx, v)

\* core_option_get_vals(opt, idx): the list, as its elements.
core_option_get_vals(idx) ==
    /\ pc = "live"
    /\ idx < Len(opts)
    /\ Query("get_vals", idx, opts[idx + 1].vals.elems)

\* ------------------------------------------------------------- mutations

\* A val_idx past the end clamped to the last value instead of wrapped.
set_val_clamp(option, val_idx) ==
    IF Len(option.vals.elems) = 0 THEN {FPE}
    ELSE IF val_idx < Len(option.vals.elems) THEN {val_idx}
    ELSE {Len(option.vals.elems) - 1}

\* option->index = val_idx % option->vals->size
set_val_index(option, val_idx) == ModOutcomes(val_idx, Len(option.vals.elems))

\* The index + 1 that stops at the last value instead of wrapping.
next_index_nowrap(option) ==
    IF Len(option.vals.elems) = 0 THEN {FPE}
    ELSE IF option.index + 1 >= Len(option.vals.elems) THEN {option.index}
    ELSE {option.index + 1}

\* option->index = (option->index + 1) % option->vals->size
next_index(option) ==
    ModOutcomes((option.index + 1) % SizeRange, Len(option.vals.elems))

\* (option->index - 1) % option->vals->size: the `+ size` left out.
prev_index_underflow(option) ==
    ModOutcomes((option.index - 1) % SizeRange, Len(option.vals.elems))

\* option->index = (option->index + option->vals->size - 1) % option->vals->size
prev_index(option) ==
    ModOutcomes((option.index + Len(option.vals.elems) - 1) % SizeRange,
                Len(option.vals.elems))

\* opt->opts[idx].index = 0
default_index(option) == {0}

\* The operation that undoes `op`, for the history.
Opposite(op) == IF op = "next" THEN "prev" ELSE IF op = "prev" THEN "next" ELSE "none"

\* opt->updated set only when the index changes.
MutateIfChanged(op, idx, arg, r) ==
    IF r = FPE THEN Trap(op)
    ELSE /\ opts' = [opts EXCEPT ![idx + 1].index = r]
         /\ updated' = (updated \/ r # opts[idx + 1].index)
         /\ last' = Call(op, idx, arg, NULL,
                         IF Opposite(op) # "none" THEN opts[idx + 1].index ELSE NoIdx,
                         IF Opposite(op) # "none" /\ last.op = Opposite(op) /\ last.idx = idx
                         THEN last.pre ELSE NoIdx)
         /\ UNCHANGED <<pc, conf, cleared>>

\* The store of a new index r into every option with the key of option idx.
MutateSameKey(op, idx, arg, r) ==
    IF r = FPE THEN Trap(op)
    ELSE /\ opts' = [j \in 1..Len(opts) |->
                        IF opts[j].key = opts[idx + 1].key
                        THEN [opts[j] EXCEPT !.index = r] ELSE opts[j]]
         /\ updated' = TRUE
         /\ last' = Call(op, idx, arg, NULL,
                         IF Opposite(op) # "none" THEN opts[idx + 1].index ELSE NoIdx,
                         IF Opposite(op) # "none" /\ last.op = Opposite(op) /\ last.idx = idx
                         THEN last.pre ELSE NoIdx)
         /\ UNCHANGED <<pc, conf, cleared>>

\* The store of a new index r into option idx with opt->updated left alone.
MutateSilent(op, idx, arg, r) ==
    IF r = FPE THEN Trap(op)
    ELSE /\ opts' = [opts EXCEPT ![idx + 1].index = r]
         /\ last' = Call(op, idx, arg, NULL,
                         IF Opposite(op) # "none" THEN opts[idx + 1].index ELSE NoIdx,
                         IF Opposite(op) # "none" /\ last.op = Opposite(op) /\ last.idx = idx
                         THEN last.pre ELSE NoIdx)
         /\ UNCHANGED <<pc, conf, updated, cleared>>

\* The store of a new index r into option idx, and opt->updated = true.
Mutate(op, idx, arg, r) ==
    IF r = FPE THEN Trap(op)
    ELSE /\ opts' = [opts EXCEPT ![idx + 1].index = r]
         /\ updated' = TRUE
         /\ last' = Call(op, idx, arg, NULL,
                         IF Opposite(op) # "none" THEN opts[idx + 1].index ELSE NoIdx,
                         IF Opposite(op) # "none" /\ last.op = Opposite(op) /\ last.idx = idx
                         THEN last.pre ELSE NoIdx)
         /\ UNCHANGED <<pc, conf, cleared>>

core_option_set_val(idx, val_idx) ==
    /\ pc = "live"
    /\ idx < Len(opts)
    /\ \E r \in set_val_index(opts[idx + 1], val_idx) : Mutate("set_val", idx, val_idx, r)
    /\ UNCHANGED <<vars, conf_path, disk, flushed>>

core_option_next(idx) ==
    /\ pc = "live"
    /\ idx < Len(opts)
    /\ \E r \in next_index(opts[idx + 1]) : Mutate("next", idx, NoIdx, r)
    /\ UNCHANGED <<vars, conf_path, disk, flushed>>

core_option_prev(idx) ==
    /\ pc = "live"
    /\ idx < Len(opts)
    /\ \E r \in prev_index(opts[idx + 1]) : Mutate("prev", idx, NoIdx, r)
    /\ UNCHANGED <<vars, conf_path, disk, flushed>>

core_option_set_default(idx) ==
    /\ pc = "live"
    /\ idx < Len(opts)
    /\ \E r \in default_index(opts[idx + 1]) : Mutate("set_default", idx, NoIdx, r)
    /\ UNCHANGED <<vars, conf_path, disk, flushed>>

\* ------------------------------------------------------------- flush

\* The loop of core_option_flush from position i: [trap, conf].  A wild read
\* that yields NULL traps in config_set_string's copy of the value.
RECURSIVE flush_loop(_, _, _, _)
flush_loop(c, os, i, wild) ==
    IF i >= Len(os) THEN [trap |-> FALSE, conf |-> c]
    ELSE
      LET v == get_val_with(os[i + 1], wild)
      IN  IF v = SEGV \/ v = NULL THEN [trap |-> TRUE, conf |-> c]
          ELSE flush_loop(config_set_string(c, os[i + 1].key, v), os, i + 1, wild)

\* config_file_write(conf, path): the file it leaves, `ok` being whether the
\* serialization succeeds.  Nothing is kept of a write to the empty path.
config_file_write(c, path, ok) ==
    IF ok /\ path # <<>> THEN [exists |-> TRUE, data |-> c.data] ELSE disk

core_option_flush(wild, ok) ==
    /\ pc = "live"
    /\ LET r == flush_loop(conf, opts, 0, wild)
       IN  IF r.trap
           THEN /\ Trap("flush")
                /\ UNCHANGED <<disk, flushed>>
           ELSE /\ conf' = r.conf
                /\ disk' = config_file_write(r.conf, conf_path, ok)
                /\ last' = Call("flush", NoIdx, NoIdx, IF ok THEN CTRUE ELSE CFALSE,
                                NoIdx, NoIdx)
                /\ flushed' = IF ok /\ conf_path # <<>>
                              THEN [valid |-> TRUE,
                                    index |-> [i \in 1..Len(opts) |-> opts[i].index]]
                              ELSE flushed
                /\ UNCHANGED <<pc, opts, updated, cleared>>
    /\ UNCHANGED <<vars, conf_path>>

\* ------------------------------------------------------------- specification

Init ==
    /\ vars \in VarArrays
    /\ conf_path \in Paths
    /\ disk \in IF conf_path = <<>> THEN {[exists |-> FALSE, data |-> EmptyData]}
                ELSE InitialFiles
    /\ pc = "none"
    /\ opts = <<>>
    /\ conf = NoConf
    /\ updated = FALSE
    /\ last = NoCall
    /\ flushed = NotFlushed
    /\ cleared = NotTracked

Next ==
    \/ \E path_ok \in BOOLEAN, default_ok \in BOOLEAN, sent \in Sentinels :
          core_option_new(path_ok, default_ok, sent)
    \/ core_option_free
    \/ \E key \in Keys : core_option_get(key)
    \/ \E idx \in 0..(MaxOpts - 1), val_idx \in ValIdxInputs :
          core_option_set_val(idx, val_idx)
    \/ \E idx \in 0..(MaxOpts - 1) : core_option_next(idx)
    \/ \E idx \in 0..(MaxOpts - 1) : core_option_prev(idx)
    \/ \E idx \in 0..(MaxOpts - 1) : core_option_set_default(idx)
    \/ \E wild \in WildReadsOf(opts), ok \in BOOLEAN : core_option_flush(wild, ok)

Spec == Init /\ [][Next]_allvars

\* The pairs of the tables the positional readers are run on, in the order
\* the core declares them: three values, none, then one value under the
\* first one's key.
ApiRow == <<Var(K1, D_abb), Var(K2, D_none), Var(K1, D_a), Var(K2, D_a)>>

\* The tables of the first n pairs.
ApiArrays == {SubSeq(ApiRow, 1, n) : n \in 0..MaxOpts}

\* The whole API, the positional readers included, with the history of the
\* flag kept, on the tables of ApiArrays.
ApiInit ==
    /\ vars \in ApiArrays
    /\ conf_path \in Paths
    /\ disk \in IF conf_path = <<>> THEN {[exists |-> FALSE, data |-> EmptyData]}
                ELSE {f \in InitialFiles : f.data[K2] = NULL}
    /\ pc = "none"
    /\ opts = <<>>
    /\ conf = NoConf
    /\ updated = FALSE
    /\ last = NoCall
    /\ flushed = NotFlushed
    /\ cleared = Tracked

ApiNext ==
    \/ Next
    \/ core_option_size_call
    \/ core_option_updated_call
    \/ \E idx \in 0..(MaxOpts - 1) : core_option_get_desc(idx)
    \/ \E idx \in 0..(MaxOpts - 1) : core_option_get_val_call(idx)
    \/ \E idx \in 0..(MaxOpts - 1) : core_option_get_vals(idx)

ApiSpec == ApiInit /\ [][ApiNext]_allvars

\* The parser alone: one pair with any descriptor text, a zeroed option, and
\* the default store open with nothing or "a" under the key.
ParseInit ==
    /\ vars \in {<<Var(K1, d)>> : d \in DescTexts}
    /\ conf_path = <<>>
    /\ disk = [exists |-> FALSE, data |-> EmptyData]
    /\ pc = "none"
    /\ opts = <<ZeroOption>>
    /\ conf \in {[open |-> TRUE, from |-> "default", frees |-> 0,
                  data |-> [k \in Keys |-> IF k = K1 THEN v ELSE NULL]] :
                 v \in {NULL, <<"a">>}}
    /\ updated = FALSE
    /\ last = NoCall
    /\ flushed = NotFlushed
    /\ cleared = NotTracked

ParseNext == parse_variable_call

ParseSpec == ParseInit /\ [][ParseNext]_allvars

\* ------------------------------------------------------------- claims

\* len(values) of the option at (1-based) place i.
NVals(i) == Len(opts[i].vals.elems)

\* A call of `op` has returned and is the last thing that happened.
Returned(op) == pc = "live" /\ last.op = op

\* The descriptor holds the separator "; " somewhere.
HasSeparator(d) == \E p \in 1..(Len(d) - 1) : d[p] = ";" /\ d[p + 1] = " "

\* The last core_option_new found a store to open.
StoreOpened ==
    \/ conf_path # <<>> /\ last.arg.path_ok
    \/ last.arg.default_ok

\* C1: in every state of a manager, 0 <= selected_index < len(values) for
\* every option.
C1_IndexInRange ==
    pc = "live" =>
        \A i \in 1..Len(opts) : 0 <= opts[i].index /\ opts[i].index < NVals(i)

\* C2: after a successful construction every option has at least one value
\* (a descriptor that splits into no value fails the construction).
C2_ValuesNonEmpty ==
    (last.op = "new" /\ last.ret = HANDLE) =>
        \A i \in 1..Len(opts) : NVals(i) >= 1

\* C3: core_option_new returns a manager exactly when a store could be
\* opened and every descriptor of the array holds "; "; otherwise it returns
\* NULL and nothing of the attempt is left: no option, no open store.  A
\* manager it returns holds every pair of the array, fully parsed.
C3_AllOrNothing ==
    last.op = "new" =>
        /\ last.ret = HANDLE <=>
              (StoreOpened /\ \A i \in 1..Len(vars) : HasSeparator(vars[i].value))
        /\ last.ret # HANDLE =>
              last.ret = NULL /\ pc = "none" /\ opts = <<>> /\ ~conf.open
        /\ last.ret = HANDLE =>
              /\ pc = "live" /\ conf.open /\ Len(opts) = Len(vars)
              /\ \A i \in 1..Len(opts) :
                    /\ opts[i].key = vars[i].key
                    /\ opts[i].desc # NULL
                    /\ ~opts[i].vals.null

\* C3's case: the second descriptor lacks "; ", the first one was parsed, and
\* the construction returned NULL with nothing left of the first.
C3_Witness ==
    /\ last.op = "new" /\ last.ret = NULL /\ StoreOpened
    /\ Len(vars) = 2
    /\ HasSeparator(vars[1].value) /\ ~HasSeparator(vars[2].value)
    /\ opts = <<>> /\ pc = "none"

\* The key of option i is the key of no other option.
UniqueKey(i) == \A j \in 1..Len(opts) : opts[j].key = opts[i].key => j = i

\* No element of option i's values before (0-based) index n equals element n.
FirstOccurrence(i, n) ==
    \A j \in 1..n : opts[i].vals.elems[j] # opts[i].vals.elems[n + 1]

\* A manager has just been built from the file a flush of the same array wrote.
RebuiltFromFlush ==
    /\ last.op = "new" /\ last.ret = HANDLE
    /\ flushed.valid /\ conf.from = "path"
    /\ Len(flushed.index) = Len(opts)

\* C4 as stated: a construction from the file a flush wrote gives every
\* option, whose value was one of its list, the index it had at the flush.
C4_FlushRoundTrip ==
    RebuiltFromFlush =>
        \A i \in 1..Len(opts) :
            flushed.index[i] < NVals(i) => opts[i].index = flushed.index[i]

\* C4 amended: the same, for every option whose key no other option has and
\* whose value at the flush had no equal entry before it in the list.
C4_FlushRoundTripUnique ==
    RebuiltFromFlush =>
        \A i \in 1..Len(opts) :
            (/\ flushed.index[i] < NVals(i)
             /\ UniqueKey(i)
             /\ FirstOccurrence(i, flushed.index[i]))
            => opts[i].index = flushed.index[i]

\* C4's case: an option with a key of its own, flushed at index 1 (the first
\* of the two equal values), came back from the file at index 1.
C4_Witness ==
    /\ RebuiltFromFlush
    /\ \E i \in 1..Len(opts) :
          /\ UniqueKey(i) /\ NVals(i) = 3
          /\ flushed.index[i] = 1 /\ opts[i].index = 1

\* C5: after a returned set_val, next, prev or set_default
\* core_option_updated is true; after a returned core_option_get it is false.
C5_UpdatedFlag ==
    /\ (\E op \in {"set_val", "next", "prev", "set_default"} : Returned(op))
          => core_option_updated = TRUE
    /\ Returned("get") => core_option_updated = FALSE

\* C5's case: a next on a one-valued option left the index where it was,
\* and the flag is set.
C5_Witness ==
    /\ Returned("next")
    /\ NVals(last.idx + 1) = 1
    /\ opts[last.idx + 1].index = last.pre
    /\ core_option_updated

\* C6 as stated: set_val(idx, k) and set_val(idx, k + len) leave the same
\* index, k + len being computed in size_t.
C6_ModulusLaw ==
    pc = "live" =>
        \A i \in 1..Len(opts), k \in 0..(SizeRange - 1) :
            set_val_index(opts[i], k) = set_val_index(opts[i], (k + NVals(i)) % SizeRange)

\* C6 amended: the same for every option with a value and every k with
\* k + len <= SIZE_MAX, and the index left is k mod len.
C6_ModulusLawNoWrap ==
    pc = "live" =>
        \A i \in 1..Len(opts), k \in 0..(SizeRange - 1) :
            (NVals(i) >= 1 /\ k + NVals(i) <= SizeRange - 1) =>
                /\ set_val_index(opts[i], k) = set_val_index(opts[i], k + NVals(i))
                /\ set_val_index(opts[i], k) = {k % NVals(i)}

\* C6's case: set_val was called with len <= k < 2 * len and left k - len,
\* the index set_val(idx, k - len) leaves.
C6_Witness ==
    /\ Returned("set_val")
    /\ NVals(last.idx + 1) = 3
    /\ last.arg >= NVals(last.idx + 1)
    /\ last.arg + NVals(last.idx + 1) <= SizeRange - 1
    /\ opts[last.idx + 1].index = last.arg - NVals(last.idx + 1)
    /\ set_val_index(opts[last.idx + 1], last.arg - NVals(last.idx + 1))
          = {opts[last.idx + 1].index}

\* C7: a next immediately followed by a prev on the same option, or a prev
\* by a next, leaves the index the option had before the two, whatever the
\* number (>= 1) of its values.
C7_NextPrevRestores ==
    \A op \in {"next", "prev"} :
        (Returned(op) /\ last.pre2 # NoIdx /\ NVals(last.idx + 1) >= 1)
            => opts[last.idx + 1].index = last.pre2

\* C7's case: from the last of three values a next wrapped to 0 and the prev
\* after it came back to 2.
C7_Witness ==
    /\ Returned("prev")
    /\ NVals(last.idx + 1) = 3
    /\ last.pre2 = 2 /\ last.pre = 0
    /\ opts[last.idx + 1].index = 2

\* C8: a prev at index 0 leaves len - 1, a prev elsewhere index - 1; the sum
\* index + len - 1 it takes the modulus of stays within size_t and the index
\* left is in range.
C8_PrevWraps ==
    /\ (Returned("prev") /\ NVals(last.idx + 1) >= 1) =>
          /\ opts[last.idx + 1].index =
                IF last.pre = 0 THEN NVals(last.idx + 1) - 1 ELSE last.pre - 1
          /\ opts[last.idx + 1].index \in 0..(NVals(last.idx + 1) - 1)
    /\ pc = "live" =>
          \A i \in 1..Len(opts) :
              NVals(i) >= 1 => opts[i].index + NVals(i) - 1 \in 0..(SizeRange - 1)

\* C8's case: a prev at index 0 of a list of three.
C8_Witness ==
    /\ Returned("prev")
    /\ NVals(last.idx + 1) = 3
    /\ last.pre = 0
    /\ opts[last.idx + 1].index = 2

\* What the store core_option_new opened holds under `key` (NULL: nothing).
StoredAtOpen(key) ==
    IF conf.from = "path" /\ disk.exists THEN disk.data[key] ELSE NULL

\* C9: a manager just built has every option at the place of the first
\* value equal, character by character, to the string stored under its key,
\* and at 0 when nothing is stored or no value equals it; what is stored
\* never fails the construction.
C9_SeededIndex ==
    last.op = "new" =>
        /\ (StoreOpened /\ \A i \in 1..Len(vars) : HasSeparator(vars[i].value))
              => last.ret = HANDLE
        /\ last.ret = HANDLE =>
              \A i \in 1..Len(opts) :
                  LET stored == StoredAtOpen(opts[i].key)
                      hits == {j \in 1..NVals(i) : opts[i].vals.elems[j] = stored}
                  IN  IF stored # NULL /\ hits # {}
                      THEN /\ opts[i].index + 1 \in hits
                           /\ \A j \in hits : opts[i].index + 1 <= j
                      ELSE opts[i].index = 0

\* C9's case: an option seeded, with no mutation made, at the first of the
\* two values equal to the stored "b".
C9_Witness ==
    /\ last.op = "new" /\ last.ret = HANDLE
    /\ \E i \in 1..Len(opts) :
          /\ StoredAtOpen(opts[i].key) = <<"b">>
          /\ NVals(i) = 3
          /\ opts[i].index = 1
          /\ opts[i].vals.elems[2] = <<"b">> /\ opts[i].vals.elems[3] = <<"b">>

\* The lowest (1-based) place whose key is `key`, 0 when there is none.
LowestWithKey(key) ==
    IF \E i \in 1..Len(opts) : opts[i].key = key
    THEN CHOOSE i \in 1..Len(opts) :
            opts[i].key = key /\ \A j \in 1..(i - 1) : opts[j].key # key
    ELSE 0

\* C10: a step in which core_option_get(key) returns leaves every index as
\* it was and yields values[selected_index] of the lowest option with that
\* key, or NULL when no option has it.
C10_LookupFirstMatch ==
    [][(pc' = "live" /\ last'.op = "get") =>
          /\ \A i \in 1..Len(opts) : opts'[i].index = opts[i].index
          /\ Len(opts') = Len(opts)
          /\ LET i == LowestWithKey(last'.arg)
             IN  IF i = 0 THEN last'.ret = NULL
                 ELSE /\ opts[i].index < NVals(i)
                      /\ last'.ret = opts[i].vals.elems[opts[i].index + 1]
      ]_allvars

\* The (1-based) place of the first "; " of d, 0 when there is none.
FirstSeparator(d) ==
    IF HasSeparator(d)
    THEN CHOOSE p \in 1..(Len(d) - 1) :
            /\ d[p] = ";" /\ d[p + 1] = " "
            /\ \A q \in 1..(p - 1) : ~(d[q] = ";" /\ d[q + 1] = " ")
    ELSE 0

\* v0|v1|...|vn
RECURSIVE Join(_)
Join(vs) ==
    IF Len(vs) = 0 THEN <<>>
    ELSE IF Len(vs) = 1 THEN vs[1]
    ELSE vs[1] \o <<"|">> \o Join(Tail(vs))

\* vs is [v0, ..., vn], n >= 0, for the text v0|v1|...|vn: entries without
\* a "|" that, joined by "|", give the text back.
IsValueList(vs, text) ==
    /\ Len(vs) >= 1
    /\ \A i \in 1..Len(vs) : \A j \in 1..Len(vs[i]) : vs[i][j] # "|"
    /\ Join(vs) = text

\* parse_variable has run on a descriptor that holds "; ".
ParsedSeparated == last.op = "parse" /\ HasSeparator(vars[1].value)

\* The text of d before its first "; ".
DescriptionOf(d) == SubSeq(d, 1, FirstSeparator(d) - 1)

\* The text of d after its first "; ".
RemainderOf(d) == SubSeq(d, FirstSeparator(d) + 2, Len(d))

\* The text after the first "; " of the descriptor parsed.
Remainder == RemainderOf(vars[1].value)

LastWithKey(i) == \A j \in (i + 1)..Len(opts) : opts[j].key # opts[i].key

\* C12: after a core_option_flush that returned, the store in memory holds
\* under every option's key values[selected_index] of the last option with
\* that key, whether or not the serialization succeeded; the call returned
\* the serialization's result, and the file written is the store's entries.
C12_FlushWrites ==
    Returned("flush") =>
        /\ \A i \in 1..Len(opts) :
              LastWithKey(i) =>
                  /\ opts[i].index < NVals(i)
                  /\ conf.data[opts[i].key] = opts[i].vals.elems[opts[i].index + 1]
        /\ last.ret \in {CTRUE, CFALSE}
        /\ (last.ret = CTRUE /\ conf_path # <<>>) => (disk.exists /\ disk.data = conf.data)

\* C13: the store handle of a live manager is open and was never released;
\* once the manager is destroyed, or a construction that had opened a store
\* is aborted, config_file_free has been called on the handle exactly once
\* (and never where no store was opened); core_option_flush, the one call
\* after construction that uses the store, finds the handle open.
C13_StoreReleasedOnce ==
    /\ pc = "live" => (conf.open /\ conf.frees = 0)
    /\ (pc = "live" /\ last.op = "flush") => (conf.open /\ conf.frees = 0)
    /\ (pc = "none" /\ last.op = "free") => (~conf.open /\ conf.frees = 1)
    /\ (pc = "none" /\ last.op = "new") =>
          (~conf.open /\ conf.frees = IF StoreOpened THEN 1 ELSE 0)
    /\ (pc = "none" /\ last.op = "none") => (~conf.open /\ conf.frees = 0)

\* C13's case: the path could not be opened, the default store could, the
\* first descriptor lacks "; ": the construction was aborted and the handle
\* of the default store released once.
C13_Witness ==
    /\ pc = "none" /\ last.op = "new" /\ last.ret = NULL
    /\ conf_path # <<>> /\ ~last.arg.path_ok /\ last.arg.default_ok
    /\ Len(vars) >= 1 /\ ~HasSeparator(vars[1].value)
    /\ ~conf.open /\ conf.frees = 1

\* The last core_option_new could open the store at conf_path.
PathOpened == conf_path # <<>> /\ last.arg.path_ok

\* C14: a manager holds the store of conf_path when the path is not empty
\* and could be opened, and the default store (with no entry) otherwise;
\* when neither could be opened core_option_new returns NULL without a
\* single parse_variable call; when one could, the descriptors are parsed
\* and only a descriptor without "; " makes it return NULL.
C14_StoreFallback ==
    last.op = "new" =>
        /\ last.ret = HANDLE =>
              /\ conf.from = IF PathOpened THEN "path" ELSE "default"
              /\ conf.from = "default" => (last.arg.default_ok /\ conf.data = EmptyData)
        /\ (~PathOpened /\ ~last.arg.default_ok) =>
              (last.ret = NULL /\ last.arg.parsed = 0)
        /\ (PathOpened \/ last.arg.default_ok) =>
              /\ Len(vars) >= 1 => last.arg.parsed >= 1
              /\ last.ret = NULL => \E i \in 1..Len(vars) : ~HasSeparator(vars[i].value)

\* C14's case: the store at conf_path could not be opened, the default one
\* could, and the manager was built on the default store.
C14_Witness ==
    /\ last.op = "new" /\ last.ret = HANDLE
    /\ conf_path # <<>> /\ ~last.arg.path_ok /\ last.arg.default_ok
    /\ conf.from = "default"
    /\ Len(opts) >= 1 /\ last.arg.parsed = Len(opts)

\* C15: as long as a manager lives, whatever was called on it, its size is
\* the number of pairs before the first sentinel of the array it was built
\* from, and the option at each position has the key of the pair at that
\* position, the description and the values of its descriptor.
C15_FixedTable ==
    pc = "live" =>
        /\ core_option_size = Len(vars)
        /\ Len(opts) = Len(vars)
        /\ \A i \in 1..Len(opts) :
              /\ opts[i].key = vars[i].key
              /\ opts[i].desc = DescriptionOf(vars[i].value)
              /\ IF RemainderOf(vars[i].value) = <<>>
                 THEN opts[i].vals.elems = <<>>
                 ELSE IsValueList(opts[i].vals.elems, RemainderOf(vars[i].value))

\* C15's case: a table of two options after a mutation, on which a flush
\* has just returned: both options are in place, one away from index 0.
C15_Witness ==
    /\ Returned("flush") /\ updated
    /\ core_option_size = 2
    /\ \E i \in 1..2 : opts[i].index # 0 /\ NVals(i) = 3
    /\ opts[1].key = vars[1].key /\ opts[2].key = vars[2].key

\* The calls that only read: by position, of the size, of the flag.
Readers == {"size", "get_desc", "get_val", "get_vals", "updated"}

\* C16: between two states of a live manager the flag goes from true to
\* false only in a step of core_option_get; a step of core_option_size,
\* get_desc, get_val, get_vals, core_option_updated or core_option_flush
\* leaves the flag and every option's index as they were.
C16_OnlyGetClears ==
    [][(pc = "live" /\ pc' = "live") =>
          /\ (updated /\ ~updated') => last'.op = "get"
          /\ last'.op \in Readers \cup {"flush"} =>
                /\ updated' = updated
                /\ Len(opts') = Len(opts)
                /\ \A i \in 1..Len(opts) : opts'[i].index = opts[i].index
      ]_allvars

\* C16's case: core_option_get_val(opt, idx) has returned the second value
\* of an option moved there, and the flag the move set is still set.
C16_Witness ==
    /\ Returned("get_val") /\ updated
    /\ opts[last.idx + 1].index = 1
    /\ last.ret = <<"b">>
    /\ flushed.valid

\* C17: in every state of a live manager, an option whose index is not the
\* one it had when the flag was last set to false (by core_option_get, or
\* by the construction when core_option_get was never called) has the flag
\* set.
C17_ChangedImpliesUpdated ==
    (pc = "live" /\ cleared.on) =>
        /\ Len(cleared.index) = Len(opts)
        /\ (\E i \in 1..Len(opts) : opts[i].index # cleared.index[i]) => updated

\* C17's case: core_option_get found the first option at its last value, a
\* later call brought it to index 0, and the flag is set.
C17_Witness ==
    /\ pc = "live" /\ cleared.on /\ Len(opts) >= 1
    /\ NVals(1) = 3
    /\ cleared.index[1] = 2 /\ opts[1].index = 0
    /\ updated

\* The index of `option` after t calls of core_option_next on it.
RECURSIVE AfterNext(_, _)
AfterNext(option, t) ==
    IF t = 0 THEN option.index
    ELSE AfterNext([option EXCEPT !.index = CHOOSE r \in next_index(option) : TRUE], t - 1)

\* C18: an option just built with nothing stored under its key is at
\* values[0]; a core_option_next that returned left the index after the one
\* before it, the first after the last; and from the index of any option
\* len(values) calls of core_option_next go through every position once,
\* each the successor of the one before, and end where they began.
C18_Cycles ==
    /\ (last.op = "new" /\ last.ret = HANDLE) =>
          \A i \in 1..Len(opts) :
              StoredAtOpen(opts[i].key) = NULL =>
                  /\ opts[i].index = 0
                  /\ NVals(i) >= 1
                  /\ core_option_get_val(opts[i]) = {opts[i].vals.elems[1]}
    /\ Returned("next") =>
          opts[last.idx + 1].index = (last.pre + 1) % NVals(last.idx + 1)
    /\ pc = "live" =>
          \A i \in 1..Len(opts) :
              /\ NVals(i) >= 1
              /\ AfterNext(opts[i], NVals(i)) = opts[i].index
              /\ {AfterNext(opts[i], t) : t \in 0..(NVals(i) - 1)} = 0..(NVals(i) - 1)
              /\ \A t \in 0..(NVals(i) - 1) :
                    AfterNext(opts[i], t + 1) = (AfterNext(opts[i], t) + 1) % NVals(i)

\* The calls that write an index.
Mutators == {"set_val", "next", "prev", "set_default"}

\* C19: a step in which set_val, next, prev or set_default returns leaves
\* the index of every position other than the one it was called on as it
\* was, the positions with the same key included.
C19_OthersUntouched ==
    [][(pc' = "live" /\ last'.op \in Mutators) =>
          /\ Len(opts') = Len(opts)
          /\ \A j \in 1..Len(opts) :
                j # last'.idx + 1 => opts'[j].index = opts[j].index
      ]_allvars

\* C19's case: set_default was called on one of two options with the same
\* key and the other one is still at its last value.
C19_Witness ==
    /\ Returned("set_default") /\ Len(opts) = 2
    /\ opts[1].key = opts[2].key
    /\ \E j \in 1..2 :
          /\ j # last.idx + 1
          /\ NVals(j) = 3 /\ opts[j].index = 2
    /\ opts[last.idx + 1].index = 0

\* C20: the step in which core_option_new returns a manager leaves the flag
\* false, whatever index the store gave the options, and on a live manager
\* the flag goes from false to true only in a step of set_val, next, prev or
\* set_default.
C20_FreshNotUpdated ==
    [][/\ (pc = "none" /\ pc' = "live") => (last'.op = "new" /\ ~updated')
       /\ (pc = "live" /\ pc' = "live" /\ ~updated /\ updated') => last'.op \in Mutators
      ]_allvars

\* C20's case: a manager just built, an option seeded at index 1 by the
\* store, and core_option_updated false.
C20_Witness ==
    /\ last.op = "new" /\ last.ret = HANDLE /\ pc = "live"
    /\ \E i \in 1..Len(opts) : opts[i].index = 1 /\ StoredAtOpen(opts[i].key) = <<"b">>
    /\ core_option_updated = FALSE

====
